---- MODULE Spec2Model ----
(***************************************************************************)
(* RS ranking engine of rs_ranking.py: quarterly returns, weighted         *)
(* strength, relative strength against the reference ticker, multi-period  *)
(* scoring, per-period percentiles, final sort, rank and min-percentile    *)
(* filter.                                                                 *)
(*                                                                         *)
(* Numbers.  Python floats are modelled as exact rationals <<n, d>> with   *)
(* d > 0 and gcd(n, d) = 1; closes are integers.  Python's None (and the   *)
(* NaN pandas stores for a missing value) is the empty tuple, so that a    *)
(* value and "no value" stay comparable.                                   *)
(***************************************************************************)
EXTENDS Integers, Sequences, FiniteSets, TLC

None == <<>>

----------------------------------------------------------------------------
(* Exact rational arithmetic standing in for float arithmetic.             *)

Abs(x) == IF x < 0 THEN -x ELSE x

RECURSIVE GCD(_, _)
GCD(a, b) == IF b = 0 THEN a ELSE GCD(b, a % b)

Rat(n, d) ==
    LET s == IF d < 0 THEN -1 ELSE 1
        g == GCD(Abs(n), Abs(d))
    IN  <<(s * n) \div g, (s * d) \div g>>

RAdd(x, y) == Rat(x[1] * y[2] + y[1] * x[2], x[2] * y[2])
RMul(x, y) == Rat(x[1] * y[1], x[2] * y[2])
RDiv(x, y) == Rat(x[1] * y[2], x[2] * y[1])
RLess(x, y) == x[1] * y[2] < y[1] * x[2]
RInt(n) == <<n, 1>>
RZero == RInt(0)

----------------------------------------------------------------------------
(* quarters_perf, strength, relative_strength, calculate_rs_at_offset      *)

DaysPerQuarter == 63

\* prices[idx] for a 0-based Python index into a TLA+ sequence
At(prices, idx) == prices[idx + 1]

\* indices = [len-1, len-Q-1, len-2Q-1, len-3Q-1, len-4Q-1]  (0-based)
AnchorIndices(prices, days_per_quarter) ==
    [k \in 1..5 |-> Len(prices) - days_per_quarter * (k - 1) - 1]

\* perf = (end_price / start_price - 1) * 100
Perf(start_price, end_price) ==
    RMul(RAdd(Rat(end_price, start_price), RInt(-1)), RInt(100))

quarters_perf(prices, days_per_quarter) ==
    IF Len(prices) < days_per_quarter * 4 THEN None
    ELSE LET indices == AnchorIndices(prices, days_per_quarter)
         IN  IF \E k \in 1..5 : indices[k] < 0 THEN None
             ELSE IF \E i \in 1..4 : ~(At(prices, indices[i + 1]) > 0) THEN None
             ELSE [i \in 1..4 |->
                     Perf(At(prices, indices[i + 1]), At(prices, indices[i]))]

\* weights = [0.4, 0.2, 0.2, 0.2]
Weights == <<Rat(2, 5), Rat(1, 5), Rat(1, 5), Rat(1, 5)>>

\* Variant: the 0.4 weight falls on the oldest quarter
StrengthOldestHeaviest(quarters) ==
    IF quarters = None \/ Len(quarters) # 4 THEN None
    ELSE RAdd(RAdd(RMul(quarters[4], Weights[1]), RMul(quarters[3], Weights[2])),
              RAdd(RMul(quarters[2], Weights[3]), RMul(quarters[1], Weights[4])))

strength(quarters) ==
    IF quarters = None \/ Len(quarters) # 4 THEN None
    ELSE RAdd(RAdd(RMul(quarters[1], Weights[1]), RMul(quarters[2], Weights[2])),
              RAdd(RMul(quarters[3], Weights[3]), RMul(quarters[4], Weights[4])))

relative_strength(stock_strength, reference_strength) ==
    IF stock_strength = None \/ reference_strength = None THEN None
    ELSE IF reference_strength = RZero THEN None
    ELSE RMul(RDiv(stock_strength, reference_strength), RInt(100))

\* Variant: the offset is not applied to the series
QuartersIgnoringOffset(prices, offset, days_per_quarter) ==
    quarters_perf(prices, days_per_quarter)

\* prices[:-offset] after the len(prices) <= offset guard; quarters of the rest
QuartersAtOffset(prices, offset, days_per_quarter) ==
    IF offset > 0 /\ Len(prices) <= offset THEN None
    ELSE quarters_perf(SubSeq(prices, 1, Len(prices) - offset), days_per_quarter)

calculate_rs_at_offset(prices, offset) ==
    LET qtrs == QuartersAtOffset(prices, offset, DaysPerQuarter)
    IN  IF qtrs = None THEN None ELSE strength(qtrs)

----------------------------------------------------------------------------
(* Configuration of calculate_rs_multi_period                               *)

reference_ticker == "SPY"

\* periods = {'current': 0, '1w_ago': 5, ...}; a dict keeps declaration order
PeriodNames == <<"current", "1w_ago", "1m_ago", "3m_ago", "6m_ago", "1y_ago">>

periods ==
    ("current" :> 0) @@ ("1w_ago" :> 5) @@ ("1m_ago" :> 21) @@
    ("3m_ago" :> 63) @@ ("6m_ago" :> 126) @@ ("1y_ago" :> 252)

PeriodSet == {PeriodNames[k] : k \in 1..Len(PeriodNames)}

\* if rs_dict.get('rs_current') is None or valid_periods < 3: continue
MinValidPeriods == 3

----------------------------------------------------------------------------
(* Input datasets.  A close-price series is given by its length, the close *)
(* of each 63-bar block counted back from the last bar, the close of the   *)
(* last bar itself, and the bars (holes, distances from the last bar)      *)
(* whose close is 0.                                                       *)

Series(len, last, levels, holes) ==
    [i \in 1..len |->
        LET d == len - i
        IN  IF d \in holes THEN 0
            ELSE IF d = 0 THEN last
            ELSE levels[(d \div DaysPerQuarter) + 1]]

\* quarterly returns [2, 2, 2, 2] over the last year, older blocks lower
LevelsRef == <<6765201, 6632550, 6502500, 6375000, 6250000,
               5000000, 4000000, 2000000, 1000000>>
\* quarterly returns [8, 4, 4, 4]
LevelsA == <<474552, 439400, 422500, 406250, 390625,
             312500, 250000, 125000, 62500>>
\* quarterly returns [-2, -2, -2, -2]
LevelsB == <<5764801, 5882450, 6002500, 6125000, 6250000,
             5000000, 4000000, 3200000, 2560000>>
LevelsFlat == <<100, 100, 100, 100, 100, 100, 100, 100, 100>>
LevelsC == <<6, 4, 4, 2, 2, 1, 1, 1, 1>>

\* Benchmark series: full history; history for four periods only; history for
\* two periods only; flat with a jump on the last bar (strength 0 at every
\* period but 'current'); flat; too short for any period; a zero close exactly
\* one year before the last bar
RefSeriesOptions ==
    << Series(505, LevelsRef[1], LevelsRef, {}),
       Series(316, LevelsRef[1], LevelsRef, {}),
       Series(260, LevelsRef[1], LevelsRef, {}),
       Series(505, 110, LevelsFlat, {}),
       Series(505, 100, LevelsFlat, {}),
       Series(252, LevelsRef[1], LevelsRef, {}),
       Series(505, LevelsRef[1], LevelsRef, {252}) >>

\* Stock series: full history (two shapes); history for three periods;
\* history for 'current' only; a zero close at the first start anchor of 1w_ago
StockSeriesOptions ==
    << Series(505, LevelsA[1], LevelsA, {}),
       Series(505, LevelsB[1], LevelsB, {}),
       Series(274, LevelsC[1], LevelsC, {}),
       Series(253, LevelsA[1], LevelsA, {}),
       Series(505, LevelsA[1], LevelsA, {68}) >>

TickerNames == <<"A", "B", "C", "D", "E">>
MaxStocks == 3

\* config.get('MIN_PERCENTILE', 70)
MinPercentiles == {0, 50, 70, 100}

Reverse(seq) == [k \in 1..Len(seq) |-> seq[Len(seq) + 1 - k]]

\* The stocks "A", "B", ... each with one of the stock series, in ascending
\* ticker order
AscendingStockLists ==
    { [k \in 1..MaxStocks |->
         [ticker |-> TickerNames[k], prices |-> StockSeriesOptions[c[k]]]] :
      c \in [1..MaxStocks -> 1..Len(StockSeriesOptions)] }

\* the same lists in descending ticker order
DescendingStockLists == {Reverse(l) : l \in AscendingStockLists}

BenchmarkRecords ==
    { [ticker |-> reference_ticker, prices |-> RefSeriesOptions[r]] :
        r \in 1..Len(RefSeriesOptions) }

\* A dataset: the stocks in either order without the benchmark, the benchmark
\* before the ascending stocks, or the benchmark after the descending stocks
Datasets ==
    AscendingStockLists \cup DescendingStockLists
      \cup {<<b>> \o l : b \in BenchmarkRecords, l \in AscendingStockLists}
      \cup {Append(l, b) : b \in BenchmarkRecords, l \in DescendingStockLists}

\* Inputs of a single quarterly-returns call
QMaxLen == 9
QMaxOffset == 2
QDays == {1, 2}
QPriceValues == {0, 1, 2}

RECURSIVE SeqsUpTo(_, _)
SeqsUpTo(S, n) ==
    IF n = 0 THEN {<<>>}
    ELSE LET shorter == SeqsUpTo(S, n - 1)
         IN  shorter \cup {Append(q, x) : q \in {t \in shorter : Len(t) = n - 1}, x \in S}

----------------------------------------------------------------------------
VARIABLES
    pc,              \* position in main / calculate_* ("start" ... "done")
    error,           \* the exception that ended the run, "" if none
    stock_data,      \* the loaded dataset: sequence of [ticker, prices]
    reference_data,  \* index of the benchmark record in stock_data, 0 = None
    ref_strengths,   \* dict period name -> benchmark strength
    idx,             \* number of stock_data entries the scoring loop has visited
    rs_results,      \* list of rs_dict: [ticker, rs: period name -> RS or None]
    period_idx,      \* number of periods the percentile loop has visited
    df,              \* the DataFrame: sequence of rows
    min_percentile,  \* config MIN_PERCENTILE, None until read
    df_filtered,     \* df[df['percentile_current'] >= min_percentile]
    q_prices, q_offset, q_days, q_result   \* one call of the quarterly returns

pipeVars == <<pc, error, stock_data, reference_data, ref_strengths, idx,
              rs_results, period_idx, df, min_percentile, df_filtered>>
qVars == <<q_prices, q_offset, q_days, q_result>>
vars == <<pipeVars, qVars>>

EmptyDict == [p \in {} |-> None]

Init ==
    /\ stock_data \in Datasets
    /\ pc = "start"
    /\ error = ""
    /\ reference_data = 0
    /\ ref_strengths = EmptyDict
    /\ idx = 0
    /\ rs_results = <<>>
    /\ period_idx = 0
    /\ df = <<>>
    /\ min_percentile = None
    /\ df_filtered = <<>>
    /\ q_prices = <<>> /\ q_offset = 0 /\ q_days = 0 /\ q_result = None

----------------------------------------------------------------------------
(* calculate_rs_multi_period                                               *)

\* for stock in stock_data: if stock['ticker'] == reference_ticker: ... break
FindReference(data) ==
    LET hits == {k \in 1..Len(data) : data[k].ticker = reference_ticker}
    IN  IF hits = {} THEN 0 ELSE CHOOSE k \in hits : \A j \in hits : k <= j

\* Variant: `if not ref_str: continue`, which also skips a strength of zero
RefStrengthFalsy(ref_str) == ref_str = None \/ ref_str = RZero

\* if ref_str is None: continue
RefStrengthMissing(ref_str) == ref_str = None

\* ref_strengths[period_name] = calculate_rs_at_offset(ref_prices, offset)
RefStrengths(ref_prices) ==
    LET ok == {p \in PeriodSet :
                 ~RefStrengthMissing(calculate_rs_at_offset(ref_prices, periods[p]))}
    IN  [p \in ok |-> calculate_rs_at_offset(ref_prices, periods[p])]

\* Variant: valid_periods counts every period the stock itself can score
CountsWithoutBenchmark(prices, refs, p) ==
    calculate_rs_at_offset(prices, periods[p]) # None

\* does the period add one to valid_periods for this stock?
CountsAsValid(prices, refs, p) ==
    /\ p \in DOMAIN refs
    /\ calculate_rs_at_offset(prices, periods[p]) # None

\* rs_dict[f'rs_{period_name}'] for one period
StockRS(prices, refs, p) ==
    IF p \notin DOMAIN refs THEN None
    ELSE relative_strength(calculate_rs_at_offset(prices, periods[p]), refs[p])

\* the loop body for one stock: [keep, rs_dict]
ScoreStock(stock, refs) ==
    LET rs == [p \in PeriodSet |-> StockRS(stock.prices, refs, p)]
        valid_periods == Cardinality({p \in PeriodSet : CountsAsValid(stock.prices, refs, p)})
    IN  [keep |-> ~(rs["current"] = None \/ valid_periods < MinValidPeriods),
         rs_dict |-> [ticker |-> stock.ticker, rs |-> rs]]

LocateReference ==
    /\ pc = "start"
    /\ reference_data' = FindReference(stock_data)
    /\ IF reference_data' = 0
         THEN pc' = "fatal" /\ error' = "ValueError: no reference data"
         ELSE pc' = "ref" /\ error' = error
    /\ UNCHANGED <<stock_data, ref_strengths, idx, rs_results, period_idx, df,
                   min_percentile, df_filtered, qVars>>

ComputeRefStrengths ==
    /\ pc = "ref"
    /\ ref_strengths' = RefStrengths(stock_data[reference_data].prices)
    /\ IF DOMAIN ref_strengths' = {}
         THEN pc' = "fatal" /\ error' = "ValueError: no reference strength"
         ELSE pc' = "score" /\ error' = error
    /\ UNCHANGED <<stock_data, reference_data, idx, rs_results, period_idx, df,
                   min_percentile, df_filtered, qVars>>

\* if ticker == reference_ticker: continue
SkipReference ==
    /\ pc = "score" /\ idx < Len(stock_data)
    /\ stock_data[idx + 1].ticker = reference_ticker
    /\ idx' = idx + 1
    /\ UNCHANGED <<pc, error, stock_data, reference_data, ref_strengths, rs_results,
                   period_idx, df, min_percentile, df_filtered, qVars>>

DropStock ==
    /\ pc = "score" /\ idx < Len(stock_data)
    /\ stock_data[idx + 1].ticker # reference_ticker
    /\ ~ScoreStock(stock_data[idx + 1], ref_strengths).keep
    /\ idx' = idx + 1
    /\ UNCHANGED <<pc, error, stock_data, reference_data, ref_strengths, rs_results,
                   period_idx, df, min_percentile, df_filtered, qVars>>

KeepStock ==
    /\ pc = "score" /\ idx < Len(stock_data)
    /\ stock_data[idx + 1].ticker # reference_ticker
    /\ LET r == ScoreStock(stock_data[idx + 1], ref_strengths)
       IN  /\ r.keep
           /\ rs_results' = Append(rs_results, r.rs_dict)
    /\ idx' = idx + 1
    /\ UNCHANGED <<pc, error, stock_data, reference_data, ref_strengths,
                   period_idx, df, min_percentile, df_filtered, qVars>>

----------------------------------------------------------------------------
(* calculate_percentiles_multi_period                                      *)

\* valid_mask = df[rs_col].notna()
ValidMask(rows, p) == {r \in 1..Len(rows) : rows[r].rs[p] # None}

\* df.loc[valid_mask, rs_col].rank(method='min', ascending=True)
RankTemp(rows, p, r) ==
    1 + Cardinality({j \in ValidMask(rows, p) : RLess(rows[j].rs[p], rows[r].rs[p])})

\* Variant: max_rank taken as the size of the valid subset
MaxRankIsValidCount(rows, p) == Cardinality(ValidMask(rows, p))

\* max_rank = df.loc[valid_mask, 'rank_temp'].max()
MaxRankTemp(rows, p) ==
    LET ranks == {RankTemp(rows, p, r) : r \in ValidMask(rows, p)}
    IN  CHOOSE m \in ranks : \A x \in ranks : x <= m

\* round(0) of n / d for n >= 0, d > 0: to nearest, a half to the even integer
RoundHalfEven(n, d) ==
    LET q == n \div d
        r == n % d
    IN  IF 2 * r < d THEN q
        ELSE IF 2 * r > d THEN q + 1
        ELSE IF q % 2 = 0 THEN q ELSE q + 1

\* ((rank_temp - 1) / (max_rank - 1) * 100).round(0).astype(int)
PercentileOf(rank_temp, max_rank) ==
    <<RoundHalfEven((rank_temp - 1) * 100, max_rank - 1)>>

\* 0 / 0 is NaN, and astype(int) raises on NaN
PercentileRaises(rows, p) ==
    ValidMask(rows, p) # {} /\ MaxRankTemp(rows, p) - 1 = 0

\* the frame after one pass of the loop body for period p
WithPercentiles(rows, p) ==
    [r \in 1..Len(rows) |->
        [rows[r] EXCEPT !.percentile =
            (p :> (IF r \in ValidMask(rows, p)
                     THEN PercentileOf(RankTemp(rows, p, r), MaxRankTemp(rows, p))
                     ELSE None)) @@ @]]

\* df[percentile_col] = None
WithNonePercentiles(rows, p) ==
    [r \in 1..Len(rows) |-> [rows[r] EXCEPT !.percentile = (p :> None) @@ @]]

\* Variant: ascending=True
SortsBeforeAscending(a, b) ==
    /\ a.rs["current"] # None
    /\ b.rs["current"] = None \/ RLess(a.rs["current"], b.rs["current"])

\* row a sorts strictly before row b: descending rs_current, NaN last
SortsBefore(a, b) ==
    /\ a.rs["current"] # None
    /\ b.rs["current"] = None \/ RLess(b.rs["current"], a.rs["current"])

\* sort_values('rs_current', ascending=False, na_position='last').  The
\* default kind orders equal keys by insertion for frames this small: rows
\* with equal keys keep the order they had in the frame, and no column but
\* rs_current is a key
SortValues(rows) ==
    LET pos(i) == 1 + Cardinality({j \in 1..Len(rows) :
                        \/ SortsBefore(rows[j], rows[i])
                        \/ j < i /\ ~SortsBefore(rows[i], rows[j])})
    IN  [k \in 1..Len(rows) |-> rows[CHOOSE i \in 1..Len(rows) : pos(i) = k]]

\* df['rank'] = range(1, len(df) + 1)
AssignRank(rows) == [k \in 1..Len(rows) |-> [rows[k] EXCEPT !.rank = k]]

\* df = pd.DataFrame(rs_results): no percentile column and no rank yet
MakeFrame(records) ==
    [k \in 1..Len(records) |->
        [ticker |-> records[k].ticker, rs |-> records[k].rs,
         percentile |-> EmptyDict, rank |-> 0]]

\* the loop over periods from the k-th on, for a frame on which it does not raise
RECURSIVE AllPercentiles(_, _)
AllPercentiles(rows, k) ==
    IF k > Len(PeriodNames) THEN rows
    ELSE AllPercentiles(IF ValidMask(rows, PeriodNames[k]) = {}
                          THEN WithNonePercentiles(rows, PeriodNames[k])
                          ELSE WithPercentiles(rows, PeriodNames[k]),
                        k + 1)

\* the frame calculate_percentiles_multi_period returns for these records
RankedFrame(records) == AssignRank(SortValues(AllPercentiles(MakeFrame(records), 1)))

CurrentPeriod == PeriodNames[period_idx + 1]

\* return rs_results, periods;  df = pd.DataFrame(rs_results)
ReturnScores ==
    /\ pc = "score" /\ idx = Len(stock_data)
    /\ pc' = "percentiles"
    /\ df' = MakeFrame(rs_results)
    /\ UNCHANGED <<error, stock_data, reference_data, ref_strengths, idx, rs_results,
                   period_idx, min_percentile, df_filtered, qVars>>

\* if rs_col not in df.columns: continue   (a frame built from [] has no columns)
PercentileNoColumn ==
    /\ pc = "percentiles" /\ period_idx < Len(PeriodNames)
    /\ df = <<>>
    /\ period_idx' = period_idx + 1
    /\ UNCHANGED <<pc, error, stock_data, reference_data, ref_strengths, idx,
                   rs_results, df, min_percentile, df_filtered, qVars>>

PercentileAssign ==
    /\ pc = "percentiles" /\ period_idx < Len(PeriodNames)
    /\ df # <<>>
    /\ ValidMask(df, CurrentPeriod) # {}
    /\ ~PercentileRaises(df, CurrentPeriod)
    /\ df' = WithPercentiles(df, CurrentPeriod)
    /\ period_idx' = period_idx + 1
    /\ UNCHANGED <<pc, error, stock_data, reference_data, ref_strengths, idx,
                   rs_results, min_percentile, df_filtered, qVars>>

PercentileRaise ==
    /\ pc = "percentiles" /\ period_idx < Len(PeriodNames)
    /\ df # <<>>
    /\ PercentileRaises(df, CurrentPeriod)
    /\ pc' = "raised"
    /\ error' = "IntCastingNaNError"
    /\ UNCHANGED <<stock_data, reference_data, ref_strengths, idx, rs_results,
                   period_idx, df, min_percentile, df_filtered, qVars>>

PercentileAllNone ==
    /\ pc = "percentiles" /\ period_idx < Len(PeriodNames)
    /\ df # <<>>
    /\ ValidMask(df, CurrentPeriod) = {}
    /\ df' = WithNonePercentiles(df, CurrentPeriod)
    /\ period_idx' = period_idx + 1
    /\ UNCHANGED <<pc, error, stock_data, reference_data, ref_strengths, idx,
                   rs_results, min_percentile, df_filtered, qVars>>

\* sort_values on a frame without the column 'rs_current'
SortRaise ==
    /\ pc = "percentiles" /\ period_idx = Len(PeriodNames)
    /\ df = <<>>
    /\ pc' = "raised"
    /\ error' = "KeyError: rs_current"
    /\ UNCHANGED <<stock_data, reference_data, ref_strengths, idx, rs_results,
                   period_idx, df, min_percentile, df_filtered, qVars>>

SortAndRank ==
    /\ pc = "percentiles" /\ period_idx = Len(PeriodNames)
    /\ df # <<>>
    /\ df' = AssignRank(SortValues(df))
    /\ pc' = "filter"
    /\ UNCHANGED <<error, stock_data, reference_data, ref_strengths, idx, rs_results,
                   period_idx, min_percentile, df_filtered, qVars>>

----------------------------------------------------------------------------
(* main: the min-percentile filter                                         *)

\* df['percentile_current'] >= min_percentile   (False for NaN)
PassesFilter(row, m) ==
    row.percentile["current"] # None /\ row.percentile["current"][1] >= m

FilterRows(rows, m) == SelectSeq(rows, LAMBDA row : PassesFilter(row, m))

Filter ==
    /\ pc = "filter"
    /\ \E m \in MinPercentiles :
         /\ min_percentile' = m
         /\ df_filtered' = FilterRows(df, m)
    /\ pc' = "done"
    /\ UNCHANGED <<error, stock_data, reference_data, ref_strengths, idx, rs_results,
                   period_idx, df, qVars>>

Next ==
    \/ LocateReference
    \/ ComputeRefStrengths
    \/ SkipReference
    \/ DropStock
    \/ KeepStock
    \/ ReturnScores
    \/ PercentileNoColumn
    \/ PercentileAssign
    \/ PercentileRaise
    \/ PercentileAllNone
    \/ SortRaise
    \/ SortAndRank
    \/ Filter

Spec == Init /\ [][Next]_vars

----------------------------------------------------------------------------
(* One call of the quarterly returns at an offset, for any days_per_quarter *)

InitQ ==
    /\ q_prices \in SeqsUpTo(QPriceValues, QMaxLen)
    /\ q_offset \in 0..QMaxOffset
    /\ q_days \in QDays
    /\ q_result = None
    /\ pc = "q_call"
    /\ error = ""
    /\ stock_data = <<>>
    /\ reference_data = 0
    /\ ref_strengths = EmptyDict
    /\ idx = 0
    /\ rs_results = <<>>
    /\ period_idx = 0
    /\ df = <<>>
    /\ min_percentile = None
    /\ df_filtered = <<>>

QuarterlyReturns ==
    /\ pc = "q_call"
    /\ q_result' = QuartersAtOffset(q_prices, q_offset, q_days)
    /\ pc' = "q_done"
    /\ UNCHANGED <<error, stock_data, reference_data, ref_strengths, idx, rs_results,
                   period_idx, df, min_percentile, df_filtered, q_prices, q_offset, q_days>>

NextQ == QuarterlyReturns

SpecQ == InitQ /\ [][NextQ]_vars

----------------------------------------------------------------------------
(* Vocabulary of the properties, stated without the operators above        *)

Tickers(rows) == {rows[k].ticker : k \in 1..Len(rows)}

BenchmarkPresent == reference_ticker \in Tickers(stock_data)

PricesOf(ticker) ==
    stock_data[CHOOSE k \in 1..Len(stock_data) : stock_data[k].ticker = ticker].prices

\* the series left after dropping the last offset bars has 4Q + 1 bars or
\* more, and the four older anchors of its quarters are strictly positive
HasScore(prices, offset) ==
    LET last == Len(prices) - offset
    IN  /\ last >= 4 * DaysPerQuarter + 1
        /\ \A k \in 1..4 : prices[last - k * DaysPerQuarter] > 0

\* v is n / d rounded to an integer (d > 0)
IsRounded(v, n, d) == Abs(2 * v * d - 2 * n) <= d

NonNone(rows, p) == {r \in 1..Len(rows) : rows[r].rs[p] # None}

ValidCount(rows, p) == Cardinality(NonNone(rows, p))

\* ascending 'min' rank: the tied group takes the smallest position it covers
MinRank(rows, p, r) ==
    ValidCount(rows, p)
      - Cardinality({j \in NonNone(rows, p) : ~RLess(rows[j].rs[p], rows[r].rs[p])}) + 1

\* the 'min' rank of the instruments with the highest RS
TopRank(rows, p) ==
    ValidCount(rows, p)
      - Cardinality({j \in NonNone(rows, p) :
                       \A i \in NonNone(rows, p) : ~RLess(rows[j].rs[p], rows[i].rs[p])}) + 1

\* the periods whose percentile column the frame has
Columns(rows) == IF rows = <<>> THEN {} ELSE DOMAIN rows[1].percentile

----------------------------------------------------------------------------
(* C1.  As claimed: every instrument with a non-NONE RS at a period has    *)
(* percentile round((rank - 1) / (validCount - 1) * 100), rank its         *)
(* ascending 'min' rank and validCount the size of the valid subset.       *)
C1_PercentileByValidCount ==
    \A p \in Columns(df) : \A r \in NonNone(df, p) :
        /\ df[r].percentile[p] # None
        /\ ValidCount(df, p) > 1
        /\ IsRounded(df[r].percentile[p][1],
                     (MinRank(df, p, r) - 1) * 100, ValidCount(df, p) - 1)

(* C1, amended.  Every instrument with a non-NONE RS at a period whose     *)
(* percentile column exists has percentile                                 *)
(* round((rank - 1) / (maxRank - 1) * 100), where maxRank is the 'min' rank *)
(* of the highest RS of the period: validCount less the number of          *)
(* instruments tied for the highest RS, plus one.                          *)
C1_PercentileByMaxRank ==
    \A p \in Columns(df) : \A r \in NonNone(df, p) :
        /\ df[r].percentile[p] # None
        /\ TopRank(df, p) > 1
        /\ IsRounded(df[r].percentile[p][1],
                     (MinRank(df, p, r) - 1) * 100, TopRank(df, p) - 1)

\* a period with percentiles where two of three valid instruments tie on top
C1_Witness ==
    \E p \in Columns(df) :
        /\ ValidCount(df, p) = 3
        /\ TopRank(df, p) = 2
        /\ \A r \in NonNone(df, p) : df[r].percentile[p] # None

----------------------------------------------------------------------------
(* C2.  Every record in the scorer's output has a non-NONE 'current' RS    *)
(* and at least 3 periods with a non-NONE RS stored in it.                 *)
C2_InclusionRule ==
    \A k \in 1..Len(rs_results) :
        /\ rs_results[k].rs["current"] # None
        /\ Cardinality({p \in PeriodSet : rs_results[k].rs[p] # None}) >= MinValidPeriods

\* a record was retained while the benchmark's strength is zero at a period
C2_Witness ==
    /\ rs_results # <<>>
    /\ \E p \in DOMAIN ref_strengths : ref_strengths[p] = RZero

----------------------------------------------------------------------------
(* C3.  The rows that survive the min-percentile filter carry the ranks    *)
(* 1..N in order, top to bottom by descending current RS, and are rows of  *)
(* the unfiltered frame (their percentiles are those of the full           *)
(* population).                                                            *)
C3_FilteredRanksContiguous ==
    pc = "done" =>
        /\ \A k \in 1..Len(df_filtered) :
             /\ df_filtered[k].rank = k
             /\ \E r \in 1..Len(df) : df[r] = df_filtered[k]
             /\ k > 1 => ~RLess(df_filtered[k - 1].rs["current"],
                                df_filtered[k].rs["current"])
        /\ \A r \in 1..Len(df) :
             (df[r].percentile["current"][1] >= min_percentile)
                => \E k \in 1..Len(df_filtered) : df_filtered[k] = df[r]

\* the filter removed rows and kept two or more
C3_Witness ==
    /\ pc = "done"
    /\ Len(df_filtered) >= 2
    /\ Len(df_filtered) < Len(df)

----------------------------------------------------------------------------
\* the periods the percentile loop has been through, the raising one included
PeriodsVisited ==
    IF pc \in {"percentiles", "raised", "filter", "done"}
      THEN {PeriodNames[k] : k \in 1..period_idx}
             \cup (IF pc = "raised" /\ period_idx < Len(PeriodNames)
                     THEN {CurrentPeriod} ELSE {})
      ELSE {}

(* C4.  A period with exactly one non-NONE RS does not make the percentile *)
(* computation raise, and that instrument's percentile for it is 100.      *)
C4_SingleValidIs100 ==
    \A p \in PeriodsVisited :
        (df # <<>> /\ ValidCount(df, p) = 1) =>
            /\ pc # "raised"
            /\ \A r \in NonNone(df, p) : df[r].percentile[p] = <<100>>

\* the loop has reached a period with exactly one valid instrument
C4_Witness ==
    \E p \in PeriodsVisited : df # <<>> /\ ValidCount(df, p) = 1

----------------------------------------------------------------------------
(* C5.  For every period with a non-empty valid population every valid     *)
(* instrument has a percentile in 0..100, the largest is 100, and the      *)
(* smallest is 0 when the population has more than one instrument.         *)
C5_PercentileRange ==
    \A p \in PeriodsVisited :
        (df # <<>> /\ ValidCount(df, p) > 0) =>
            /\ p \in Columns(df)
            /\ \A r \in NonNone(df, p) :
                 /\ df[r].percentile[p] # None
                 /\ df[r].percentile[p][1] \in 0..100
            /\ \E r \in NonNone(df, p) : df[r].percentile[p] = <<100>>
            /\ ValidCount(df, p) > 1 =>
                 \E r \in NonNone(df, p) : df[r].percentile[p] = <<0>>

\* the loop has reached a period where several instruments share one RS
C5_Witness ==
    \E p \in PeriodsVisited :
        /\ df # <<>>
        /\ ValidCount(df, p) > 1
        /\ TopRank(df, p) = 1

----------------------------------------------------------------------------
(* C6.  The scorer aborts exactly when the benchmark is absent or has no   *)
(* period with a strength score; it aborts before any stock is scored, and *)
(* once scoring has begun no error is raised in it: the scorer returns     *)
(* after visiting every entry of the dataset.                              *)
NoBenchmarkScore ==
    /\ BenchmarkPresent
    /\ \A p \in PeriodSet : ~HasScore(PricesOf(reference_ticker), periods[p])

C6_FatalExactly ==
    /\ pc = "fatal" => (~BenchmarkPresent \/ NoBenchmarkScore) /\ idx = 0 /\ rs_results = <<>>
    /\ (~BenchmarkPresent \/ NoBenchmarkScore) => pc \in {"start", "ref", "fatal"}
    /\ pc = "ref" => BenchmarkPresent
    /\ pc = "score" => error = "" /\ idx <= Len(stock_data)
    /\ pc \in {"percentiles", "raised", "filter", "done"} => idx = Len(stock_data)

\* the scorer has returned although every stock was dropped for its own
\* lack of history or zero anchor
C6_Witness ==
    /\ pc = "percentiles"
    /\ rs_results = <<>>
    /\ "current" \in DOMAIN ref_strengths
    /\ \E k \in 1..Len(stock_data) :
         /\ stock_data[k].ticker # reference_ticker
         /\ ~HasScore(stock_data[k].prices, periods["1w_ago"])

----------------------------------------------------------------------------
(* C7.  Quarterly returns at an offset: NONE when fewer than 4Q + 1 bars   *)
(* remain after dropping the last offset bars; exactly 4 values when       *)
(* 4Q + 1 or more remain and the anchors are strictly positive.            *)
C7_QuarterlyReturnsLength ==
    pc = "q_done" =>
        LET last == Len(q_prices) - q_offset
        IN  /\ last < 4 * q_days + 1 => q_result = None
            /\ (/\ last >= 4 * q_days + 1
                /\ \A k \in 0..4 : q_prices[last - k * q_days] > 0)
                 => q_result # None /\ Len(q_result) = 4

\* the boundary: exactly 4Q bars remain after a positive offset
C7_Witness ==
    /\ pc = "q_done"
    /\ q_offset > 0
    /\ Len(q_prices) - q_offset = 4 * q_days
    /\ \A k \in 1..Len(q_prices) : q_prices[k] > 0

----------------------------------------------------------------------------
(* C8.  A period the benchmark has no strength score for, while it has one *)
(* for another period, does not abort the run: every output record has     *)
(* NONE as its RS, no row gets a percentile for it, and every retained     *)
(* record has 3 or more periods scored for both itself and the benchmark.  *)
ScoredByBoth(ticker) ==
    {p \in PeriodSet : /\ HasScore(PricesOf(reference_ticker), periods[p])
                       /\ HasScore(PricesOf(ticker), periods[p])}

C8_DroppedOffset ==
    (BenchmarkPresent /\ ~NoBenchmarkScore /\ pc \notin {"start", "ref"}) =>
        /\ pc # "fatal"
        /\ \A p \in PeriodSet :
             ~HasScore(PricesOf(reference_ticker), periods[p]) =>
                /\ \A k \in 1..Len(rs_results) : rs_results[k].rs[p] = None
                /\ \A r \in 1..Len(df) :
                     /\ df[r].rs[p] = None
                     /\ p \in Columns(df) => df[r].percentile[p] = None
                /\ \A r \in 1..Len(df_filtered) :
                     df_filtered[r].rs[p] = None /\ df_filtered[r].percentile[p] = None
        /\ \A k \in 1..Len(rs_results) :
             Cardinality(ScoredByBoth(rs_results[k].ticker)) >= MinValidPeriods

\* a finished run whose benchmark lacks a period the kept stocks can score
C8_Witness ==
    /\ pc = "done"
    /\ df_filtered # <<>>
    /\ \E p \in PeriodSet :
         /\ ~HasScore(PricesOf(reference_ticker), periods[p])
         /\ HasScore(PricesOf(df_filtered[1].ticker), periods[p])

----------------------------------------------------------------------------
(* C9.  Instruments with the same current RS have the same current         *)
(* percentile, and the returned frame (row order and ranks) is the same    *)
(* for every order in which the same scored records are supplied.          *)
C9_TieOrderDeterministic ==
    pc \in {"filter", "done"} =>
        /\ \A a, b \in 1..Len(df) :
             df[a].rs["current"] = df[b].rs["current"]
                => df[a].percentile["current"] = df[b].percentile["current"]
        /\ \A f \in Permutations(1..Len(rs_results)) :
             RankedFrame([k \in 1..Len(rs_results) |-> rs_results[f[k]]]) = df

\* a returned frame in which two instruments share their current RS
C9_Witness ==
    /\ pc \in {"filter", "done"}
    /\ \E a, b \in 1..Len(df) :
         a # b /\ df[a].rs["current"] = df[b].rs["current"]

----------------------------------------------------------------------------
(* C10.  When the scorer returns, for every retained instrument and every  *)
(* period at which both it and the benchmark have a strength score and the *)
(* benchmark's is nonzero, the stored RS is                                *)
(* (S_instrument / S_benchmark) * 100 with                                 *)
(* S = 0.4 q0 + 0.2 q1 + 0.2 q2 + 0.2 q3, q0 the return of the most recent *)
(* quarter and q3 of the oldest.  Benchmark returns [2,2,2,2] with         *)
(* instrument returns [8,4,4,4] give 280, with [-2,-2,-2,-2] give -100.    *)

\* the close k quarters before the last bar left after dropping offset bars
AnchorClose(prices, offset, k) == prices[Len(prices) - offset - k * DaysPerQuarter]

\* percentage return of the quarter that ends k quarters before that bar
QuarterReturn(prices, offset, k) ==
    Rat(100 * (AnchorClose(prices, offset, k) - AnchorClose(prices, offset, k + 1)),
        AnchorClose(prices, offset, k + 1))

WeightedScore(prices, offset) ==
    RDiv(RAdd(RAdd(RMul(RInt(2), QuarterReturn(prices, offset, 0)),
                   QuarterReturn(prices, offset, 1)),
              RAdd(QuarterReturn(prices, offset, 2), QuarterReturn(prices, offset, 3))),
         RInt(5))

HasReturns(prices, q) ==
    /\ HasScore(prices, 0)
    /\ \A k \in 0..3 : QuarterReturn(prices, 0, k) = RInt(q[k + 1])

ScorerReturned == pc = "percentiles" /\ period_idx = 0

C10_StoredRS ==
    ScorerReturned => \A k \in 1..Len(rs_results) :
        LET stock == PricesOf(rs_results[k].ticker)
            bench == PricesOf(reference_ticker)
        IN  /\ \A p \in PeriodSet :
                 (/\ HasScore(stock, periods[p])
                  /\ HasScore(bench, periods[p])
                  /\ WeightedScore(bench, periods[p]) # RZero)
                   => rs_results[k].rs[p] =
                        RMul(RDiv(WeightedScore(stock, periods[p]),
                                  WeightedScore(bench, periods[p])), RInt(100))
            /\ (HasReturns(bench, <<2, 2, 2, 2>>) /\ HasReturns(stock, <<8, 4, 4, 4>>))
                   => rs_results[k].rs["current"] = RInt(280)
            /\ (HasReturns(bench, <<2, 2, 2, 2>>) /\ HasReturns(stock, <<-2, -2, -2, -2>>))
                   => rs_results[k].rs["current"] = RInt(-100)

\* both instruments of the example were retained against that benchmark
C10_Witness ==
    /\ ScorerReturned
    /\ BenchmarkPresent
    /\ HasReturns(PricesOf(reference_ticker), <<2, 2, 2, 2>>)
    /\ \E a, b \in 1..Len(rs_results) :
         /\ HasReturns(PricesOf(rs_results[a].ticker), <<8, 4, 4, 4>>)
         /\ HasReturns(PricesOf(rs_results[b].ticker), <<-2, -2, -2, -2>>)
         /\ rs_results[a].rs["3m_ago"] # None


----------------------------------------------------------------------------
(* C11.  Once the scorer has returned, the percentile ranking, the sort,   *)
(* the rank assignment and the min-percentile filter complete without      *)
(* raising and yield a table; an empty record list (no instrument passed   *)
(* the inclusion rule, as when 'current' has no benchmark strength) yields *)
(* an empty table.                                                         *)
C11_PipelineCompletes ==
    /\ pc # "raised"
    /\ (pc \in {"percentiles", "filter", "done"} /\ rs_results = <<>>)
          => df = <<>> /\ pc # "filter"
    /\ (pc = "done" /\ rs_results = <<>>) => df_filtered = <<>>

\* the scorer returned an empty list because the benchmark has no strength
\* at 'current', and the run ended in the sort
C11_Witness ==
    /\ pc = "raised"
    /\ error = "KeyError: rs_current"
    /\ idx = Len(stock_data)
    /\ rs_results = <<>>
    /\ DOMAIN ref_strengths # {}
    /\ "current" \notin DOMAIN ref_strengths

====
